---- MODULE Spec2Model ----
(***************************************************************************)
(* State-machine model of YOLOv3DarkNet53Vehicles (module.py): the one-time *)
(* predictor configuration, the library call object_detection with its      *)
(* batch loop, the command-line entry point run_cmd and the serving entry   *)
(* point serving_method.                                                    *)
(*                                                                          *)
(* Conventions.  An optional value is a sequence of length 0 or 1: None is  *)
(* <<>> and Some(x) is <<x>>.  Confidences and score thresholds are counted *)
(* in tenths (0.2 is 2).  The value of CUDA_VISIBLE_DEVICES is an optional  *)
(* sequence of one-character strings.                                       *)
(***************************************************************************)
EXTENDS Integers, Sequences, FiniteSets, TLC

\* ------------------------------------------------------------------ bounds
MaxImages == 3
MaxBatch == 3

\* ------------------------------------------------------------ basic values
None == <<>>
Some(x) == <<x>>

Min(a, b) == IF a <= b THEN a ELSE b

\* All sequences over S of length 0..n.
SeqsUpTo(S, n) == UNION {[1..k -> S] : k \in 0..n}

\* ------------------------------------------------------ program constants
\* Defaults of object_detection's keyword parameters.
DefaultBatchSize == 1
DefaultUseGpu == FALSE
DefaultOutputDir == "yolov3_vehicles_detect_output"
DefaultScoreThresh == 2
DefaultVisualization == TRUE
\* Default of the command line's --visualization.
CmdDefaultVisualization == FALSE

\* The label list read from label_file.txt; a class id is an index into it.
LabelFile == <<"car", "truck">>

\* ------------------------------------------------------------ environment
Digits == {"0", "1", "2", "3", "4", "5", "6", "7", "8", "9"}

\* Values of CUDA_VISIBLE_DEVICES: unset, "", "0", "-1".
CudaValues == {None, Some(<<>>), Some(<<"0">>), Some(<<"-", "1">>)}

\* try: _places = os.environ["CUDA_VISIBLE_DEVICES"]; int(_places[0])
\* succeeds: the variable is set, non-empty and its first character is a digit.
CudaEnvOk(e) == e # None /\ Len(e[1]) > 0 /\ e[1][1] \in Digits

\* The attribute self.gpu_predictor when _set_config never assigned it.
NoAttr == "no attribute"

\* _set_config under environment e: the CPU predictor always, the GPU
\* predictor only when the environment check succeeds at that time.
SetConfig(e) ==
    [cpu_predictor |-> "cpu_predictor",
     gpu_predictor |-> IF CudaEnvOk(e) THEN "gpu_predictor" ELSE NoAttr]

\* ------------------------------------------------------------------ inputs
NonePath == "<None>"
PathItems == {"a.jpg", "missing.jpg"}
ImageItems == {"imgA", "imgB"}
PathSeqs == SeqsUpTo(PathItems, MaxImages)
ImageSeqs == SeqsUpTo(ImageItems, MaxImages)

\* A path the reader can decode.
Readable(item) == item \notin {"missing.jpg", NonePath}

VARIABLES
    env,            \* os.environ["CUDA_VISIBLE_DEVICES"]
    cpu_predictor,  \* self.cpu_predictor
    gpu_predictor,  \* self.gpu_predictor, NoAttr when never assigned
    label_names,    \* self.label_names
    pc,             \* position of the running call
    entry,          \* entry point of the running call
    request,        \* what the entry point was given
    call,           \* the arguments object_detection was called with
    pos,            \* number of items the batch reader has consumed
    feed_data,      \* the batch being processed
    iter_id,        \* enumerate's counter
    data_out,       \* the predictor's output for the batch
    res,            \* the result list
    runs,           \* predictor invocations of the running call
    posts,          \* postprocess invocations of the running call
    ret,            \* value returned to the caller (optional)
    err             \* exception propagated to the caller

vars == <<env, cpu_predictor, gpu_predictor, label_names, pc, entry, request,
          call, pos, feed_data, iter_id, data_out, res, runs, posts, ret, err>>

self_vars == <<cpu_predictor, gpu_predictor, label_names>>

\* ------------------------------------------------------- object_detection
\* The arguments of one call of object_detection.
CallArgs(paths, images, batch_size, use_gpu, output_dir, score_thresh, visualization) ==
    [paths |-> paths, images |-> images, batch_size |-> batch_size,
     use_gpu |-> use_gpu, output_dir |-> output_dir,
     score_thresh |-> score_thresh, visualization |-> visualization]

\* The call record while no call is running.
NoCall ==
    CallArgs(None, None, DefaultBatchSize, DefaultUseGpu, DefaultOutputDir,
             DefaultScoreThresh, DefaultVisualization)

\* if use_gpu: try: os.environ["CUDA_VISIBLE_DEVICES"]; int(_places[0])
\* except: raise RuntimeError.  TRUE when the call passes this check.
\* Faulty variant: the check is skipped.
GpuRequestOkNoCheck(use_gpu, e) == TRUE
GpuRequestOk(use_gpu, e) == ~use_gpu \/ CudaEnvOk(e)

\* paths = paths if paths else list()
LocalPaths(paths) == IF paths # None /\ paths[1] # <<>> THEN paths[1] ELSE <<>>

\* reader(paths, images): the sequence of images it yields, one per input,
\* in input order; paths take precedence over in-memory images.
ReaderItems(paths, images) ==
    IF paths # <<>> THEN paths
    ELSE IF images # None THEN images[1]
    ELSE <<>>

\* The inputs of a call, as its reader sees them.
Inputs(c) == ReaderItems(LocalPaths(c.paths), c.images)

\* fluid.io.batch(data_reader, batch_size): the batch that starts after
\* `done` consumed items holds the next batch_size items, fewer at the end.
\* Faulty variant: batch_size is ignored, every batch holds one item.
NextBatchOne(items, done, batch_size) ==
    SubSeq(items, done + 1, Min(done + 1, Len(items)))
NextBatch(items, done, batch_size) ==
    SubSeq(items, done + 1, Min(done + batch_size, Len(items)))

\* enumerate(...) counts the batches of a call from 0.
\* Faulty variant: the counter of the previous call is kept.
IterAtEntryStale == iter_id
IterAtEntry == 0

\* The predictor the loop body runs: self.gpu_predictor if use_gpu else
\* self.cpu_predictor.
PredictorFor(use_gpu) == IF use_gpu THEN gpu_predictor ELSE cpu_predictor

\* score_thresh=score_thresh
\* Faulty variant: the default threshold is handed over.
ScoreThreshArgDefault(c) == DefaultScoreThresh
ScoreThreshArg(c) == c.score_thresh

\* handle_id=iter_id * batch_size
\* Faulty variant: the batch index is handed over unscaled.
HandleIdIter(it, batch_size) == it
HandleId(it, batch_size) == it * batch_size

\* The keyword arguments of the postprocess call of the loop body.
PostprocessArgs(c, it, dout) ==
    [paths |-> LocalPaths(c.paths), images |-> c.images, data_out |-> dout,
     score_thresh |-> ScoreThreshArg(c), label_names |-> label_names,
     output_dir |-> c.output_dir, handle_id |-> HandleId(it, c.batch_size),
     visualization |-> c.visualization]

\* res.extend(output)
\* Faulty variant: res = output.
ExtendReplace(r, output) == output
Extend(r, output) == r \o output

\* ------------------------------------------------------------------ engine
\* One raw output row: class id and confidence (box coordinates left out).
Row(class_id, confidence) == [class_id |-> class_id, confidence |-> confidence]

\* The rows the engine may return for one image.
RowLists ==
    { <<Row(0, 1), Row(1, 3)>>,
      <<Row(1, 5)>>,
      <<Row(Len(LabelFile), 5)>> }

\* The engine's output for a batch of m images: the rows of each image.
EngineOutputs(m) == [1..m -> RowLists]

\* ----------------------------------------------------------- postprocess
\* Rows of one image that survive the threshold, in engine order.
RECURSIVE Surviving(_, _)
Surviving(rows, thresh) ==
    IF rows = <<>> THEN <<>>
    ELSE IF Head(rows).confidence < thresh THEN Surviving(Tail(rows), thresh)
    ELSE <<Head(rows)>> \o Surviving(Tail(rows), thresh)

\* One Detection per surviving row.
Detections(rows, labels) ==
    [k \in 1..Len(rows) |->
        [label |-> labels[rows[k].class_id + 1],
         confidence |-> rows[k].confidence]]

\* postprocess fails on a surviving row whose class id is outside the label
\* list, on an image index outside the inputs, and on an output directory
\* that cannot be written when visualization is requested.
PostprocessFails(a, dir_ok) ==
    \/ a.visualization /\ ~dir_ok
    \/ \E j \in 1..Len(a.data_out) :
         \/ a.handle_id + j > Len(ReaderItems(a.paths, a.images))
         \/ \E r \in 1..Len(Surviving(a.data_out[j], a.score_thresh)) :
               Surviving(a.data_out[j], a.score_thresh)[r].class_id
                   \notin 0..(Len(a.label_names) - 1)

\* postprocess: one result record per image of the batch, in batch order.
Postprocess(a) ==
    [j \in 1..Len(a.data_out) |->
        [index |-> a.handle_id + j - 1,
         image |-> ReaderItems(a.paths, a.images)[a.handle_id + j],
         data |-> Detections(Surviving(a.data_out[j], a.score_thresh),
                             a.label_names),
         save_path |-> IF a.visualization
                         THEN Some([dir |-> a.output_dir,
                                    index |-> a.handle_id + j - 1])
                         ELSE None]]

\* ---------------------------------------------------------------- actions
\* An exception leaves the call: nothing is returned.
Raise(e) == pc' = "raised" /\ err' = e /\ ret' = None

\* Lines 196-208 of object_detection, entered from entry point ent.
Enter(ent, req, c) ==
    /\ entry' = ent
    /\ request' = req
    /\ call' = c
    /\ pos' = 0
    /\ feed_data' = <<>>
    /\ data_out' = <<>>
    /\ runs' = <<>>
    /\ posts' = <<>>
    /\ IF ~GpuRequestOk(c.use_gpu, env)
         THEN Raise("RuntimeError") /\ UNCHANGED <<res, iter_id>>
       ELSE IF c.batch_size <= 0
         THEN Raise("ValueError") /\ UNCHANGED <<res, iter_id>>
       ELSE /\ pc' = "fetch"
            /\ err' = ""
            /\ ret' = None
            /\ res' = <<>>
            /\ iter_id' = IterAtEntry
    /\ UNCHANGED <<env, self_vars>>

\* The arguments of a direct library call.
LibInputs ==
    {<<p, i>> \in ({None} \cup {Some(x) : x \in PathSeqs})
                  \X ({None} \cup {Some(x) : x \in ImageSeqs}) :
        Len(LocalPaths(p)) + (IF i = None THEN 0 ELSE Len(i[1])) <= MaxImages}

LibCalls ==
    {CallArgs(pi[1], pi[2], b, g, DefaultOutputDir, t, v) :
        pi \in LibInputs, b \in 0..MaxBatch, g \in BOOLEAN,
        t \in {DefaultScoreThresh, 4}, v \in BOOLEAN}

\* A caller invokes object_detection directly.
ObjectDetection ==
    /\ pc = "idle"
    /\ \E c \in LibCalls : Enter("lib", None, c)

\* ----------------------------------------------------------------- run_cmd
\* An option that does not occur on the command line.
Absent == "<absent>"

\* Tokens ast.literal_eval accepts, and their values (thresholds in tenths).
LiteralOk(tok) == tok \in {"0", "2", "True", "False", "0.4"}
LiteralEval(tok) ==
    CASE tok = "0" -> 0
      [] tok = "2" -> 2
      [] tok = "True" -> TRUE
      [] tok = "False" -> FALSE
      [] tok = "0.4" -> 4

\* Command lines: each option absent or given with one token.
CmdArgvs ==
    [input_path : {Absent, "a.jpg", "missing.jpg"},
     batch_size : {Absent, "0", "2", "x"},
     use_gpu : {Absent, "True", "yes"},
     visualization : {Absent, "True"},
     score_thresh : {Absent, "0.4"},
     output_dir : {Absent, "out"}]

\* parser.parse_args(argvs) ends the command when the token of an option of
\* type ast.literal_eval is not a literal.
ParseOk(argv) ==
    \A tok \in {argv.batch_size, argv.use_gpu, argv.visualization,
                argv.score_thresh} : tok = Absent \/ LiteralOk(tok)

\* The namespace parse_args returns: the option's default when it is absent
\* (--input_path has none, so it is None).
ParseArgs(argv) ==
    [input_path |-> IF argv.input_path = Absent THEN NonePath
                    ELSE argv.input_path,
     batch_size |-> IF argv.batch_size = Absent THEN DefaultBatchSize
                    ELSE LiteralEval(argv.batch_size),
     use_gpu |-> IF argv.use_gpu = Absent THEN DefaultUseGpu
                 ELSE LiteralEval(argv.use_gpu),
     visualization |-> IF argv.visualization = Absent
                         THEN CmdDefaultVisualization
                       ELSE LiteralEval(argv.visualization),
     score_thresh |-> IF argv.score_thresh = Absent THEN DefaultScoreThresh
                      ELSE LiteralEval(argv.score_thresh),
     output_dir |-> IF argv.output_dir = Absent THEN DefaultOutputDir
                    ELSE argv.output_dir]

\* paths=[args.input_path]
\* Faulty variant: a missing input path gives an empty list of paths.
CmdPathsSkipNone(args) ==
    IF args.input_path = NonePath THEN <<>> ELSE <<args.input_path>>
CmdPaths(args) == <<args.input_path>>

\* self.object_detection(paths=[args.input_path], batch_size=..., ...)
CmdCall(args) ==
    CallArgs(Some(CmdPaths(args)), None, args.batch_size, args.use_gpu,
             args.output_dir, args.score_thresh, args.visualization)

\* The entry point's own failure, before object_detection is entered.
EntryRaise(ent, req, e) ==
    /\ entry' = ent
    /\ request' = req
    /\ Raise(e)
    /\ UNCHANGED <<env, self_vars, call, pos, feed_data, iter_id, data_out,
                   res, runs, posts>>

\* hub run yolov3_darknet53_vehicles ...
RunCmd ==
    /\ pc = "idle"
    /\ \E argv \in CmdArgvs :
         IF ParseOk(argv)
           THEN Enter("cmd", argv, CmdCall(ParseArgs(argv)))
         ELSE EntryRaise("cmd", argv, "SystemExit")

\* ---------------------------------------------------------- serving_method
\* base64_to_cv2: the image an encoded string decodes to.
Decodable(enc) == enc \in {"aW1nQQ==", "aW1nQg=="}
Base64ToCv2(enc) == IF enc = "aW1nQQ==" THEN "imgA" ELSE "imgB"

EncodedItems == {"aW1nQQ==", "aW1nQg==", "%%"}

\* images_decode = [base64_to_cv2(image) for image in images]
ImagesDecode(images) == [k \in 1..Len(images) |-> Base64ToCv2(images[k])]

\* A keyword argument when given, the parameter's default otherwise.
KwArg(opt, default) == IF opt = None THEN default ELSE opt[1]

\* Served requests: the encoded images and the keyword options given.
ServeRequests ==
    [images : SeqsUpTo(EncodedItems, MaxImages),
     kwargs : [paths : {None, Some(<<"a.jpg">>)},
               batch_size : {None, Some(2)},
               use_gpu : {None, Some(TRUE)},
               score_thresh : {None, Some(4)}]]

\* self.object_detection(images=images_decode, **kwargs)
ServeCall(decoded, kw) ==
    CallArgs(kw.paths, Some(decoded), KwArg(kw.batch_size, DefaultBatchSize),
             KwArg(kw.use_gpu, DefaultUseGpu), DefaultOutputDir,
             KwArg(kw.score_thresh, DefaultScoreThresh), DefaultVisualization)

\* A served request.
ServingMethod ==
    /\ pc = "idle"
    /\ \E req \in ServeRequests :
         IF \A k \in 1..Len(req.images) : Decodable(req.images[k])
           THEN Enter("serve", req, ServeCall(ImagesDecode(req.images), req.kwargs))
         ELSE EntryRaise("serve", req, "DecodeError")

\* for iter_id, feed_data in enumerate(batch_reader()): the next batch is
\* read; the loop ends when the reader is exhausted.
FetchBatch ==
    /\ pc = "fetch"
    /\ LET items == Inputs(call)
           batch == NextBatch(items, pos, call.batch_size)
           bad == {k \in 1..Len(batch) : ~Readable(batch[k])}
       IN IF batch = <<>>
            THEN /\ pc' = "done"
                 /\ ret' = Some(res)
                 /\ UNCHANGED <<pos, feed_data, err>>
          ELSE IF bad # {}
            THEN /\ Raise("DecodeError")
                 /\ pos' = pos + (CHOOSE k \in bad : \A m \in bad : k <= m)
                 /\ UNCHANGED feed_data
          ELSE /\ pc' = "run"
               /\ feed_data' = batch
               /\ pos' = pos + Len(batch)
               /\ UNCHANGED <<ret, err>>
    /\ UNCHANGED <<env, self_vars, entry, request, call, iter_id, data_out,
                   res, runs, posts>>

\* The record of one predictor invocation: the batch it ran, the predictor
\* it ran on, the size of the batch and the output (<<>> when it failed).
RunRecord(out) ==
    [iter_id |-> iter_id, predictor |-> PredictorFor(call.use_gpu),
     size |-> Len(feed_data), out |-> out]

\* data_out = self.gpu_predictor.run(...) if use_gpu else
\* self.cpu_predictor.run(...); the engine may fail.
\* Faulty variant: a failure of the engine is swallowed and the loop goes on
\* with the next batch.
RunPredictorSwallow ==
    /\ pc = "run"
    /\ \/ /\ pc' = "fetch"
          /\ err' = "EngineError"
          /\ iter_id' = iter_id + 1
          /\ runs' = Append(runs, RunRecord(<<>>))
          /\ UNCHANGED <<data_out, ret>>
       \/ \E out \in EngineOutputs(Len(feed_data)) :
            /\ pc' = "post"
            /\ data_out' = out
            /\ runs' = Append(runs, RunRecord(out))
            /\ UNCHANGED <<ret, err, iter_id>>
    /\ UNCHANGED <<env, self_vars, entry, request, call, pos, feed_data,
                   res, posts>>
RunPredictor ==
    /\ pc = "run"
    /\ IF PredictorFor(call.use_gpu) = NoAttr
         THEN /\ Raise("AttributeError")
              /\ UNCHANGED <<data_out, runs>>
       ELSE \/ /\ Raise("EngineError")
               /\ runs' = Append(runs, RunRecord(<<>>))
               /\ UNCHANGED data_out
            \/ \E out \in EngineOutputs(Len(feed_data)) :
                 /\ pc' = "post"
                 /\ data_out' = out
                 /\ runs' = Append(runs, RunRecord(out))
                 /\ UNCHANGED <<ret, err>>
    /\ UNCHANGED <<env, self_vars, entry, request, call, pos, feed_data,
                   iter_id, res, posts>>

\* output = postprocess(...); res.extend(output); back to the loop head.
PostprocessBatch ==
    /\ pc = "post"
    /\ LET a == PostprocessArgs(call, iter_id, data_out)
       IN /\ posts' = Append(posts, [handle_id |-> a.handle_id,
                                     score_thresh |-> a.score_thresh,
                                     size |-> Len(a.data_out)])
          /\ \E dir_ok \in BOOLEAN :
               IF PostprocessFails(a, dir_ok)
                 THEN Raise("PostprocessError") /\ UNCHANGED <<res, iter_id>>
               ELSE /\ res' = Extend(res, Postprocess(a))
                    /\ iter_id' = iter_id + 1
                    /\ pc' = "fetch"
                    /\ UNCHANGED <<ret, err>>
    /\ UNCHANGED <<env, self_vars, entry, request, call, pos, feed_data,
                   data_out, runs>>

\* The caller receives the result or the exception.  The frame of the call
\* is gone; iter_id keeps its last value, which only the enumerate of the
\* next call replaces.
Return ==
    /\ pc \in {"done", "raised"}
    /\ pc' = "idle"
    /\ entry' = "none"
    /\ request' = None
    /\ call' = NoCall
    /\ pos' = 0
    /\ feed_data' = <<>>
    /\ data_out' = <<>>
    /\ runs' = <<>>
    /\ posts' = <<>>
    /\ ret' = None
    /\ err' = ""
    /\ res' = <<>>
    /\ UNCHANGED <<env, self_vars, iter_id>>

\* Between calls the process environment may change.
SetEnv ==
    /\ pc = "idle"
    /\ \E e \in CudaValues : env' = e
    /\ UNCHANGED <<self_vars, pc, entry, request, call, pos, feed_data,
                   iter_id, data_out, res, runs, posts, ret, err>>

\* The state after _initialize, under any environment.
Init ==
    /\ env \in CudaValues
    /\ cpu_predictor = SetConfig(env).cpu_predictor
    /\ gpu_predictor = SetConfig(env).gpu_predictor
    /\ label_names = LabelFile
    /\ pc = "idle"
    /\ entry = "none"
    /\ request = None
    /\ call = NoCall
    /\ pos = 0
    /\ feed_data = <<>>
    /\ iter_id = 0
    /\ data_out = <<>>
    /\ res = <<>>
    /\ runs = <<>>
    /\ posts = <<>>
    /\ ret = None
    /\ err = ""

Next ==
    \/ ObjectDetection
    \/ RunCmd
    \/ ServingMethod
    \/ FetchBatch
    \/ RunPredictor
    \/ PostprocessBatch
    \/ Return
    \/ SetEnv

Spec == Init /\ [][Next]_vars

\* ------------------------------------------------------------------ claims
\* Python's `paths or images` for the arguments of a call.
PathsOrImages(c) ==
    IF c.paths # None /\ c.paths[1] # <<>> THEN c.paths[1]
    ELSE IF c.images # None THEN c.images[1]
    ELSE <<>>

\* ceil(n / b) for b >= 1.
CeilDiv(n, b) == (n + b - 1) \div b

\* The number of images in the first k logged predictor runs.
RECURSIVE SizeOfRuns(_, _)
SizeOfRuns(rs, k) == IF k = 0 THEN 0 ELSE SizeOfRuns(rs, k - 1) + rs[k].size

\* C1: a call of object_detection with batch_size >= 1 that returns normally
\* returns exactly one record per input image, len(result) = len(paths or
\* images), and the i-th record belongs to the i-th input image.
C1_OneRecordPerInput ==
    (pc = "done" /\ call.batch_size >= 1) =>
        /\ Len(ret[1]) = Len(PathsOrImages(call))
        /\ \A i \in 1..Len(ret[1]) :
              /\ ret[1][i].index = i - 1
              /\ ret[1][i].image = PathsOrImages(call)[i]

\* C1 witness: three inputs in batches of two returned three records.
C1_Witness ==
    /\ pc = "done"
    /\ call.batch_size = 2
    /\ Len(PathsOrImages(call)) = 3
    /\ Len(ret[1]) = 3

\* C2: a call with use_gpu=true while CUDA_VISIBLE_DEVICES is unset or
\* invalid ends with the configuration error before the reader is consumed
\* and before any predictor, CPU or GPU, is run.
C2_GpuConfigErrorFirst ==
    (pc # "idle" /\ call.use_gpu /\ ~CudaEnvOk(env)) =>
        /\ pc = "raised"
        /\ err = "RuntimeError"
        /\ ret = None
        /\ pos = 0
        /\ runs = <<>>
        /\ posts = <<>>

\* C2 witness: a GPU request on inputs failed with the configuration error
\* although a GPU predictor had been created at initialization.
C2_Witness ==
    /\ pc = "raised"
    /\ err = "RuntimeError"
    /\ call.use_gpu
    /\ ~CudaEnvOk(env)
    /\ gpu_predictor # NoAttr
    /\ Inputs(call) # <<>>

\* C3: the caller's score_thresh is handed unchanged to the postprocessor in
\* every batch, and every detection in the result list and in the returned
\* records has confidence >= that threshold.
C3_ConfidenceAtLeastThreshold ==
    /\ \A k \in 1..Len(posts) : posts[k].score_thresh = call.score_thresh
    /\ \A i \in 1..Len(res) : \A d \in 1..Len(res[i].data) :
          res[i].data[d].confidence >= call.score_thresh
    /\ pc = "done" =>
          \A i \in 1..Len(ret[1]) : \A d \in 1..Len(ret[1][i].data) :
              ret[1][i].data[d].confidence >= call.score_thresh

\* C3 witness: a returned result under a non-default threshold in which one
\* image lost all its rows and another kept a detection.
C3_Witness ==
    /\ pc = "done"
    /\ call.score_thresh # DefaultScoreThresh
    /\ \E i, j \in 1..Len(ret[1]) :
          /\ ret[1][i].data = <<>>
          /\ ret[1][j].data # <<>>

\* C4: a command line with a malformed argument or without --input_path ends
\* with an exception and runs no inference; any other command line enters
\* object_detection on the single given path with the parsed options and
\* returns that call's result list.
C4_RunCmd ==
    [][ (entry = "cmd") =>
          /\ ~ParseOk(request) =>
                /\ pc = "raised"
                /\ err = "SystemExit"
                /\ runs = <<>>
                /\ pc' = "idle"
          /\ (ParseOk(request) /\ request.input_path = Absent) =>
                /\ pc \in {"fetch", "raised"}
                /\ runs = <<>>
                /\ ret = None
                /\ pc = "fetch" => pc' = "raised"
          /\ (ParseOk(request) /\ request.input_path # Absent) =>
                /\ call.paths = Some(<<request.input_path>>)
                /\ call.images = None
                /\ call.batch_size = ParseArgs(request).batch_size
                /\ call.use_gpu = ParseArgs(request).use_gpu
                /\ call.output_dir = ParseArgs(request).output_dir
                /\ call.visualization = ParseArgs(request).visualization
                /\ call.score_thresh = ParseArgs(request).score_thresh
                /\ pc = "done" => ret = Some(res)
      ]_vars

\* C4 witness: a well-formed command line without --input_path has failed in
\* the reader, with no inference run.
C4_Witness ==
    /\ entry = "cmd"
    /\ ParseOk(request)
    /\ request.input_path = Absent
    /\ pc = "raised"
    /\ err = "DecodeError"
    /\ runs = <<>>

\* C5: a served request whose images all decode runs object_detection on
\* exactly the decoded images, in submission order, and returns one record per
\* submitted image; file paths are never its input source.
C5_ServedImagesOnly ==
    (entry = "serve" /\ pc # "idle"
       /\ \A k \in 1..Len(request.images) : Decodable(request.images[k])) =>
        /\ call.images = Some(ImagesDecode(request.images))
        /\ Inputs(call) = ImagesDecode(request.images)
        /\ pc = "done" =>
              /\ ret = Some(res)
              /\ Len(ret[1]) = Len(request.images)
              /\ \A i \in 1..Len(ret[1]) :
                    ret[1][i].image = Base64ToCv2(request.images[i])

\* Each batch is run at most once, in order, none beyond the current one.
RunsInOrder ==
    /\ \A i, j \in 1..Len(runs) : i < j => runs[i].iter_id < runs[j].iter_id
    /\ \A i \in 1..Len(runs) : runs[i].iter_id <= iter_id

\* C6: a failure of the reader, the engine or the postprocessor ends the call
\* with that failure: nothing is returned, the failed batch is not run again,
\* no later batch is processed, and the only step left is the caller's.
C6_FailuresPropagate ==
    [][ /\ err # "" => (pc = "raised" /\ ret = None)
        /\ pc = "raised" => (pc' = "idle" /\ ret' = None /\ res' = <<>>)
        /\ pc = "done" => err = ""
        /\ RunsInOrder
      ]_vars

\* C6 witness: the engine failed on the second batch, after the first batch's
\* records had been appended; nothing was returned.
C6_Witness ==
    /\ pc = "raised"
    /\ err = "EngineError"
    /\ iter_id = 1
    /\ Len(runs) = 2
    /\ res # <<>>
    /\ ret = None

\* The result list the arguments of the call and the logged engine outputs
\* determine.
RECURSIVE ResultOf(_, _, _)
ResultOf(c, rs, k) ==
    IF k = 0 THEN <<>>
    ELSE ResultOf(c, rs, k - 1)
            \o Postprocess([paths |-> LocalPaths(c.paths), images |-> c.images,
                            data_out |-> rs[k].out,
                            score_thresh |-> c.score_thresh,
                            label_names |-> LabelFile,
                            output_dir |-> c.output_dir,
                            handle_id |-> (k - 1) * c.batch_size,
                            visualization |-> c.visualization])

\* C7: no step changes the predictor handles or the label list; every call
\* starts with an empty result list and batch counter 0; and a returned result
\* is determined by the call's arguments and the engine's outputs alone.
C7_NoSharedMutableState ==
    [][ /\ UNCHANGED <<cpu_predictor, gpu_predictor, label_names>>
        /\ (pc = "idle" /\ pc' = "fetch") =>
              (res' = <<>> /\ iter_id' = 0 /\ runs' = <<>> /\ posts' = <<>>)
        /\ pc' = "done" => ret' = Some(ResultOf(call', runs', Len(runs')))
      ]_vars

\* C7 witness: a call that processed at least two batches has ended and the
\* module is ready for the next call, with both predictors and the label
\* list as initialization left them.
C7_Witness ==
    /\ pc = "idle"
    /\ iter_id >= 2
    /\ res = <<>>
    /\ cpu_predictor = "cpu_predictor"
    /\ gpu_predictor = "gpu_predictor"
    /\ label_names = LabelFile

\* C8: the offset handed to the postprocessor for batch k is k * batch_size
\* and equals the number of input images in the earlier batches, so offset +
\* index-within-batch addresses the inputs once each, in input order.
C8_HandleIdIsImagesBefore ==
    /\ \A k \in 1..Len(posts) :
          /\ posts[k].handle_id = (k - 1) * call.batch_size
          /\ posts[k].handle_id = SizeOfRuns(runs, k - 1)
          /\ posts[k].size = runs[k].size
    /\ \A i \in 1..Len(res) : res[i].index = i - 1
    /\ pc = "fetch" => Len(res) = pos

\* C8 witness: the second batch, of one image, was postprocessed at offset 2.
C8_Witness ==
    /\ Len(posts) = 2
    /\ call.batch_size = 2
    /\ posts[2].handle_id = 2
    /\ posts[2].size = 1
    /\ Len(res) = 3

\* C9: the inputs are batched in input order, at most batch_size per batch
\* and only the last one smaller; the engine runs once per batch, batch k+1
\* only after batch k was postprocessed and appended; n inputs end after
\* ceil(n / batch_size) engine calls, and zero inputs after none.
C9_SinglePass ==
    /\ \A k \in 1..Len(runs) :
          /\ runs[k].iter_id = k - 1
          /\ runs[k].size \in 1..call.batch_size
          /\ k < Len(runs) => runs[k].size = call.batch_size
    /\ pc \in {"run", "post"} =>
          /\ feed_data = SubSeq(Inputs(call), pos - Len(feed_data) + 1, pos)
          /\ Len(res) = pos - Len(feed_data)
          /\ Len(posts) = iter_id
    /\ pc = "run" => Len(runs) = iter_id
    /\ pc = "post" => Len(runs) = iter_id + 1
    /\ pc = "done" =>
          /\ Len(runs) = CeilDiv(Len(Inputs(call)), call.batch_size)
          /\ Len(posts) = Len(runs)
          /\ SizeOfRuns(runs, Len(runs)) = Len(Inputs(call))
          /\ Inputs(call) = <<>> => (runs = <<>> /\ ret = Some(<<>>))

\* C9 witness: three inputs in batches of two ended after two engine calls.
C9_Witness ==
    /\ pc = "done"
    /\ Len(Inputs(call)) = 3
    /\ call.batch_size = 2
    /\ Len(runs) = 2
    /\ runs[2].size = 1

\* C10: a call with use_gpu=true that passed the CUDA_VISIBLE_DEVICES check
\* has a GPU predictor and runs every batch on it, and a call with
\* use_gpu=false runs every batch on the CPU predictor.
C10_GpuRequestRunsOnGpu ==
    /\ (pc = "run" /\ call.use_gpu) => gpu_predictor # NoAttr
    /\ err # "AttributeError"
    /\ \A k \in 1..Len(runs) :
          runs[k].predictor = IF call.use_gpu THEN "gpu_predictor"
                              ELSE "cpu_predictor"

====
